---- MODULE Spec2Model ----
(***************************************************************************)
(* A model of src/src/game.rs: the Minesweeper Grid (cells, the flat      *)
(* index mapping, neighbors, reveal with its flood fill, the mouse        *)
(* handler on_event), the board generator place_bombs_rnd and new_game.   *)
(***************************************************************************)
EXTENDS Integers, Sequences, FiniteSets, TLC

(***************************************************************************)
(* Bounds of the model.                                                    *)
(***************************************************************************)
\* Grid sizes of the game specifications: rows in 1..MaxRows, cols in 1..MaxCols,
\* with at most MaxCells cells.
MaxRows == 3
MaxCols == 3
MaxCells == 9
\* num_bombs of the game specifications Spec, FairSpec and SpecCalls.
MaxBombs == 1
\* num_bombs of the generation-only specification SpecGen.
GenMaxBombs == 8
\* Number of events / direct calls dispatched to one grid.
MaxOps == 2
\* Capacity of the flood fill's work stack: growing the Vec beyond it is an
\* allocation failure, which aborts the process.
MaxStack == 8
\* Grid sizes of the neighbors specification SpecNeighbors.
NbMaxRows == 4
NbMaxCols == 5
\* Configurations of the specification SpecConfig: rows in 0..CfgMaxRows, cols in
\* 0..CfgMaxCols, num_bombs in 0..CfgMaxBombs (valid or not).
CfgMaxRows == 2
CfgMaxCols == 2
CfgMaxBombs == 5

VARIABLES
    size,          \* Grid.size, <<rows, cols>>
    cells,         \* Grid.cells, a function on 0..rows*cols-1 (the Vec<Cell>)
    num_bombs,     \* place_bombs_rnd's num_bombs (Config.num_bombs)
    bombs_placed,  \* place_bombs_rnd's bombs_placed
    pc,            \* where the program is: "gen", "play", "reveal", "panic",
                   \* "exhausted", "test", "new"
    stack,         \* reveal's work stack (top = last element)
    reveal_index,  \* reveal's argument `index`, <<>> when no call was made
    caller,        \* who called reveal: "on_event", "direct" or "none"
    result,        \* the EventResult on_event returned last
    nops,          \* number of events and direct calls so far
    prev,          \* history: the grid after the previous completed direct reveal
    rep,           \* history: the last direct reveal repeated prev's index
    nb_index,      \* argument of the last neighbors call of SpecNeighbors
    nb_res         \* its result

vars == <<size, cells, num_bombs, bombs_placed, pc, stack, reveal_index, caller,
          result, nops, prev, rep, nb_index, nb_res>>

(***************************************************************************)
(* Data: CellContents, CellState, Cell.                                    *)
(***************************************************************************)
Bomb == [tag |-> "Bomb"]

Hint(n) == [tag |-> "Hint", n |-> n]

IsHint(x) == x.tag = "Hint"

CellState == {"Hidden", "Revealed", "Flagged"}

\* Cell::default(): contents Hint(0), state Hidden.
DefaultCell == [contents |-> Hint(0), state |-> "Hidden"]

None == <<>>

\* The glyphs of the hints 0..8 (NUMBERS[n] is NUMBERS[n + 1] here).
NUMBERS == <<"[0]", "[1]", "[2]", "[3]", "[4]", "[5]", "[6]", "[7]", "[8]">>

(***************************************************************************)
(* Grid::new, Index / IndexMut, neighbors.                                 *)
(***************************************************************************)
\* vec![Cell::default(); r * c]
GridNew(sz) == [i \in 0 .. (sz[1] * sz[2] - 1) |-> DefaultCell]

\* The flat index the Index / IndexMut impls compute for a coordinate.
index(sz, ix) == ix[1] * sz[1] + ix[2]

\* Vec indexing succeeds (otherwise it panics).
InVec(cs, i) == i \in DOMAIN cs

\* The coordinates of the grid, [0,rows) x [0,cols).
Coords(sz) == (0 .. sz[1] - 1) \X (0 .. sz[2] - 1)

When(b, s) == IF b THEN s ELSE <<>>

\* Grid::neighbors, in push order.
neighbors(sz, ix) ==
    LET r == ix[1]
        c == ix[2]
    IN  When(r > 0,
             <<<<r - 1, c>>>>
             \o When(c > 0, <<<<r - 1, c - 1>>>>)
             \o When(r < sz[1] - 1, <<<<r - 1, c + 1>>>>))
        \o When(c > 0, <<<<r, c - 1>>>>)
        \o When(c < sz[2] - 1, <<<<r, c + 1>>>>)
        \o When(r < sz[1] - 1,
                <<<<r + 1, c>>>>
                \o When(c > 0, <<<<r + 1, c - 1>>>>)
                \o When(c < sz[2] + 1, <<<<r + 1, c + 1>>>>))

\* The contents / state read at a coordinate through Index (when it does not panic).
ReadOk(sz, cs, ix) == InVec(cs, index(sz, ix))

Read(sz, cs, ix) == cs[index(sz, ix)]

(***************************************************************************)
(* place_bombs_rnd.                                                        *)
(***************************************************************************)
\* Bump, counting a bomb twice.
BumpTwice(cell) ==
    IF IsHint(cell.contents)
    THEN [cell EXCEPT !.contents = Hint(cell.contents.n + 2)]
    ELSE cell

\* Bump, without the `if let`: a Bomb neighbour is overwritten by a hint.
BumpAny(cell) ==
    IF IsHint(cell.contents)
    THEN [cell EXCEPT !.contents = Hint(cell.contents.n + 1)]
    ELSE [cell EXCEPT !.contents = Hint(1)]

\* Hint(n) => Hint(n + 1); a Bomb is left alone.
Bump(cell) ==
    IF IsHint(cell.contents)
    THEN [cell EXCEPT !.contents = Hint(cell.contents.n + 1)]
    ELSE cell

\* The for loop over grid.neighbors(index): each neighbor is indexed in turn;
\* an index outside the Vec panics and leaves the cells as they are then.
RECURSIVE BumpNeighbors(_, _, _, _)
BumpNeighbors(sz, cs, nbs, k) ==
    IF k > Len(nbs) THEN [cells |-> cs, ok |-> TRUE]
    ELSE IF ~InVec(cs, index(sz, nbs[k])) THEN [cells |-> cs, ok |-> FALSE]
    ELSE BumpNeighbors(sz,
                       [cs EXCEPT ![index(sz, nbs[k])] = Bump(cs[index(sz, nbs[k])])],
                       nbs, k + 1)

\* One iteration of the while loop with the sampled coordinate ix.
PlaceBomb(ix) ==
    /\ pc = "gen"
    /\ bombs_placed < num_bombs
    /\ IF ~InVec(cells, index(size, ix))
       THEN /\ pc' = "panic"
            /\ UNCHANGED <<cells, bombs_placed>>
       ELSE IF cells[index(size, ix)].contents # Bomb
       THEN LET marked == [cells EXCEPT ![index(size, ix)].contents = Bomb]
                done == BumpNeighbors(size, marked, neighbors(size, ix), 1)
            IN  /\ cells' = done.cells
                /\ IF done.ok
                   THEN /\ bombs_placed' = bombs_placed + 1
                        /\ pc' = pc
                   ELSE /\ bombs_placed' = bombs_placed
                        /\ pc' = "panic"
       ELSE UNCHANGED <<cells, bombs_placed, pc>>
    /\ UNCHANGED <<size, num_bombs, stack, reveal_index, caller, result, nops,
                   prev, rep, nb_index, nb_res>>

\* The while condition fails: place_bombs_rnd returns and the grid is shown.
PlaceBombsReturn ==
    /\ pc = "gen"
    /\ bombs_placed >= num_bombs
    /\ pc' = "play"
    /\ UNCHANGED <<size, cells, num_bombs, bombs_placed, stack, reveal_index, caller,
                   result, nops, prev, rep, nb_index, nb_res>>

Generate == \E ix \in Coords(size) : PlaceBomb(ix)

(***************************************************************************)
(* Grid::reveal: the target, then the flood fill, one pop per step.        *)
(***************************************************************************)
\* MarkRevealed, written as a toggle like the flag handler.
MarkToggled(cell) ==
    IF cell.state = "Revealed"
    THEN [cell EXCEPT !.state = "Hidden"]
    ELSE [cell EXCEPT !.state = "Revealed"]

\* cell.state = CellState::Revealed
MarkRevealed(cell) == [cell EXCEPT !.state = "Revealed"]

\* The contents that make reveal flood: `if let CellContents::Hint(0) = ...`.
IsZero(cell) == cell.contents = Hint(0)

\* The start of reveal(ix) on the cells cs: the target is indexed (a panic when
\* the index is outside the Vec) and marked; a Hint(0) target loads the stack
\* with its neighbors and enters the loop, any other target returns at once.
RevealStart(sz, cs, ix) ==
    IF ~InVec(cs, index(sz, ix))
    THEN [cells |-> cs, stack |-> <<>>, pc |-> "panic"]
    ELSE [cells |-> [cs EXCEPT ![index(sz, ix)] = MarkRevealed(@)],
          stack |-> IF IsZero(cs[index(sz, ix)]) THEN neighbors(sz, ix) ELSE <<>>,
          pc |-> IF IsZero(cs[index(sz, ix)]) THEN "reveal" ELSE "play"]

reveal(ix, who) ==
    /\ reveal_index' = ix
    /\ caller' = who
    /\ LET started == RevealStart(size, cells, ix)
       IN  /\ cells' = started.cells
           /\ stack' = started.stack
           /\ pc' = started.pc

\* One iteration of `while let Some(current) = stack.pop()`.
FloodStep ==
    /\ pc = "reveal"
    /\ stack # <<>>
    /\ LET current == stack[Len(stack)]
           rest == SubSeq(stack, 1, Len(stack) - 1)
           f == index(size, current)
       IN  IF ~InVec(cells, f)
           THEN /\ pc' = "panic"
                /\ stack' = rest
                /\ UNCHANGED cells
           ELSE IF IsZero(cells[f])
           THEN /\ cells' = [cells EXCEPT ![f] = MarkRevealed(@)]
                /\ IF Len(rest \o neighbors(size, current)) > MaxStack
                   THEN /\ pc' = "exhausted"
                        /\ stack' = rest
                   ELSE /\ pc' = pc
                        /\ stack' = rest \o neighbors(size, current)
           ELSE /\ stack' = rest
                /\ UNCHANGED <<cells, pc>>
    /\ UNCHANGED <<size, num_bombs, bombs_placed, reveal_index, caller, result,
                   nops, prev, rep, nb_index, nb_res>>

\* stack.pop() is None: reveal returns; on_event then returns Ignored (line 135).
RevealReturn ==
    /\ pc = "reveal"
    /\ stack = <<>>
    /\ pc' = "play"
    /\ result' = IF caller = "on_event" THEN "Ignored" ELSE result
    /\ prev' = IF caller = "direct" /\ ~rep
               THEN [ix |-> reveal_index, cells |-> cells]
               ELSE prev
    /\ UNCHANGED <<size, cells, num_bombs, bombs_placed, stack, reveal_index, caller,
                   nops, rep, nb_index, nb_res>>

(***************************************************************************)
(* View::on_event.                                                         *)
(***************************************************************************)
\* Vec2::checked_sub: None when a component would go below zero.
checked_sub(p, o) ==
    IF p[1] >= o[1] /\ p[2] >= o[2] THEN <<p[1] - o[1], p[2] - o[2]>> ELSE None

\* let (r, c) = (y, x / 3)
CellOf(xy) == <<xy[2], xy[1] \div 3>>

\* r < self.size.0 && c < self.size.1
InGrid(sz, rc) == rc[1] < sz[1] /\ rc[2] < sz[2]

\* NotRevealed, with the test left out.
NotRevealedAlways(cell) == TRUE

\* NotRevealed, letting a flag block the press as well.
HiddenOnly(cell) == cell.state = "Hidden"

\* cell.state != CellState::Revealed
NotRevealed(cell) == cell.state # "Revealed"

\* IsBomb, with the test left out.
IsBombNever(cell) == FALSE

\* cell.contents == CellContents::Bomb
IsBomb(cell) == cell.contents = Bomb

\* ToggleFlag, taking the flag off by resetting the cell to Cell::default().
ToggleFlagReset(cell) ==
    IF cell.state = "Flagged"
    THEN DefaultCell
    ELSE [cell EXCEPT !.state = "Flagged"]

\* The right press: Flagged -> Hidden, otherwise -> Flagged.
ToggleFlag(cell) ==
    IF cell.state = "Flagged"
    THEN [cell EXCEPT !.state = "Hidden"]
    ELSE [cell EXCEPT !.state = "Flagged"]

\* The offset of the grid view in its window, and the events it may be sent.
ViewOffset == <<1, 1>>

\* Every position over a cell (3 columns wide, 1 row high), and positions left of,
\* above, right of and below the grid.
Positions(sz) ==
    ((ViewOffset[1] .. ViewOffset[1] + 3 * sz[2] - 1)
        \X (ViewOffset[2] .. ViewOffset[2] + sz[1] - 1))
    \cup {<<ViewOffset[1] - 1, ViewOffset[2]>>, <<ViewOffset[1], ViewOffset[2] - 1>>,
          <<ViewOffset[1] + 3 * sz[2], ViewOffset[2]>>,
          <<ViewOffset[1], ViewOffset[2] + sz[1]>>}

\* Presses anywhere in and around the view, one other mouse event, one key event.
Events(sz) ==
    [kind : {"Mouse"}, offset : {ViewOffset}, position : Positions(sz),
     event : {"PressLeft", "PressRight"}]
    \cup [kind : {"Mouse", "Key"}, offset : {ViewOffset}, position : {ViewOffset},
          event : {"Other"}]

\* What on_event does with the event e on the cells cs, up to its return or up
\* to the loop of the reveal it calls: the cells then, the EventResult (none
\* while reveal runs or after a panic), the target of the reveal call if any,
\* and where the program is.
Handle(sz, cs, e) ==
    LET rel == IF e.kind = "Mouse" THEN checked_sub(e.position, e.offset) ELSE None
        rc == IF rel = None THEN None ELSE CellOf(rel)
        f == index(sz, rc)
        ignored == [cells |-> cs, result |-> "Ignored", target |-> None, pc |-> "play"]
    IN  IF rel = None \/ ~InGrid(sz, rc) THEN ignored
        ELSE IF ~InVec(cs, f)
        THEN [cells |-> cs, result |-> "none", target |-> None, pc |-> "panic"]
        ELSE IF ~NotRevealed(cs[f]) THEN ignored
        ELSE IF e.event = "PressLeft"
        THEN IF IsBomb(cs[f])
             THEN [cells |-> cs, result |-> "Callback", target |-> None, pc |-> "play"]
             ELSE LET started == RevealStart(sz, cs, rc)
                  IN  [cells |-> started.cells,
                       result |-> IF started.pc = "play" THEN "Ignored" ELSE "none",
                       target |-> rc,
                       pc |-> started.pc]
        ELSE IF e.event = "PressRight"
        THEN [cells |-> [cs EXCEPT ![f] = ToggleFlag(@)],
              result |-> "Consumed", target |-> None, pc |-> "play"]
        ELSE ignored

on_event(e) ==
    /\ pc = "play"
    /\ nops < MaxOps
    /\ nops' = nops + 1
    /\ prev' = None
    /\ rep' = FALSE
    /\ LET handled == Handle(size, cells, e)
       IN  /\ result' = handled.result
           /\ IF handled.target # None
              THEN reveal(handled.target, "on_event")
              ELSE /\ cells' = handled.cells
                   /\ pc' = handled.pc
                   /\ UNCHANGED <<stack, reveal_index, caller>>
    /\ UNCHANGED <<size, num_bombs, bombs_placed, nb_index, nb_res>>

OnEvent == \E e \in Events(size) : on_event(e)

(***************************************************************************)
(* A direct call of Grid::reveal on an in-bounds coordinate that holds no  *)
(* bomb (what its one call site guarantees), whatever the cell's state.    *)
(***************************************************************************)
DirectReveal(ix) ==
    /\ pc = "play"
    /\ nops < MaxOps
    /\ ReadOk(size, cells, ix) => ~IsBomb(Read(size, cells, ix))
    /\ nops' = nops + 1
    /\ reveal(ix, "direct")
    /\ rep' = (prev # None /\ prev.ix = ix)
    /\ prev' = IF prev # None /\ prev.ix = ix THEN prev
               ELSE IF ReadOk(size, cells, ix) /\ ~IsZero(Read(size, cells, ix))
               THEN [ix |-> ix, cells |-> [cells EXCEPT ![index(size, ix)] = MarkRevealed(@)]]
               ELSE None
    /\ UNCHANGED <<size, num_bombs, bombs_placed, result, nb_index, nb_res>>

CallReveal == \E ix \in Coords(size) : DirectReveal(ix)

(***************************************************************************)
(* A call of Grid::neighbors on an in-bounds coordinate.                   *)
(***************************************************************************)
CallNeighbors ==
    /\ pc = "test"
    /\ \E ix \in Coords(size) :
          /\ nb_index' = ix
          /\ nb_res' = neighbors(size, ix)
    /\ UNCHANGED <<size, cells, num_bombs, bombs_placed, pc, stack, reveal_index,
                   caller, result, nops, prev, rep>>

(***************************************************************************)
(* Initial states: new_game after Config::from and Grid::new.              *)
(***************************************************************************)
Sizes == {sz \in (1 .. MaxRows) \X (1 .. MaxCols) : sz[1] * sz[2] <= MaxCells}

InitWith(sizes, maxBombs, start) ==
    /\ size \in sizes
    /\ cells = GridNew(size)
    /\ num_bombs \in {k \in 0 .. maxBombs : k < size[1] * size[2]}
    /\ bombs_placed = 0
    /\ pc = start
    /\ stack = <<>>
    /\ reveal_index = None
    /\ caller = "none"
    /\ result = "none"
    /\ nops = 0
    /\ prev = None
    /\ rep = FALSE
    /\ nb_index = None
    /\ nb_res = <<>>

InitGen == InitWith(Sizes, GenMaxBombs, "gen")

NextGen == Generate \/ PlaceBombsReturn

\* Generation alone.
SpecGen == InitGen /\ [][NextGen]_vars

Init == InitWith(Sizes, MaxBombs, "gen")

Next == Generate \/ PlaceBombsReturn \/ OnEvent \/ FloodStep \/ RevealReturn

\* The game: generation, then mouse events.
Spec == Init /\ [][Next]_vars

\* The flood fill runs to completion once started (no other code interleaves).
FairSpec == Spec /\ WF_vars(FloodStep) /\ WF_vars(RevealReturn)

NextCalls == Next \/ CallReveal

\* The game, with direct calls of reveal as well.
SpecCalls == Init /\ [][NextCalls]_vars

\* Generation with a fair random source: while some in-bounds sample would
\* place a bomb (or abort), such a sample is drawn in the end (the samples that
\* land on a Bomb in between change nothing), and the loop's exit is taken once
\* its condition fails.
FairGen == SpecGen /\ WF_vars(Generate) /\ WF_vars(PlaceBombsReturn)

(***************************************************************************)
(* new_game on any Config: Grid::new(config.size), then place_bombs_rnd.   *)
(***************************************************************************)
\* let mut grid = Grid::new(config.size), followed by the call of place_bombs_rnd.
NewGame ==
    /\ pc = "new"
    /\ cells' = GridNew(size)
    /\ pc' = "gen"
    /\ UNCHANGED <<size, num_bombs, bombs_placed, stack, reveal_index, caller,
                   result, nops, prev, rep, nb_index, nb_res>>

\* rng.gen_range(0..r) or gen_range(0..c) on an empty range: it panics.
SampleEmpty ==
    /\ pc = "gen"
    /\ bombs_placed < num_bombs
    /\ Coords(size) = {}
    /\ pc' = "panic"
    /\ UNCHANGED <<size, cells, num_bombs, bombs_placed, stack, reveal_index, caller,
                   result, nops, prev, rep, nb_index, nb_res>>

\* A Config of any size and num_bombs, before the grid is built.
InitConfig ==
    /\ size \in (0 .. CfgMaxRows) \X (0 .. CfgMaxCols)
    /\ num_bombs \in 0 .. CfgMaxBombs
    /\ cells = <<>>
    /\ bombs_placed = 0
    /\ pc = "new"
    /\ stack = <<>>
    /\ reveal_index = None
    /\ caller = "none"
    /\ result = "none"
    /\ nops = 0
    /\ prev = None
    /\ rep = FALSE
    /\ nb_index = None
    /\ nb_res = <<>>

NextConfig == NewGame \/ SampleEmpty \/ Generate \/ PlaceBombsReturn

\* new_game on configurations of every kind.
SpecConfig == InitConfig /\ [][NextConfig]_vars

InitNeighbors == InitWith((1 .. NbMaxRows) \X (1 .. NbMaxCols), 0, "test")

\* Calls of neighbors on grids of every size.
SpecNeighbors == InitNeighbors /\ [][CallNeighbors]_vars

(***************************************************************************)
(* What the properties speak of: the Moore neighbourhood, the cells as      *)
(* read through the coordinates, the zero region of a cell.                *)
(***************************************************************************)
\* The set of the elements of a sequence.
Range(s) == {s[i] : i \in DOMAIN s}

\* The in-bounds cells among the 8 around ix.
Moore(sz, ix) ==
    {rc \in Coords(sz) :
        /\ rc # ix
        /\ rc[1] - ix[1] \in {-1, 0, 1}
        /\ rc[2] - ix[2] \in {-1, 0, 1}}

ReadsBomb(sz, cs, ix) == ReadOk(sz, cs, ix) /\ IsBomb(Read(sz, cs, ix))

ReadsZero(sz, cs, ix) == ReadOk(sz, cs, ix) /\ IsZero(Read(sz, cs, ix))

ReadsRevealed(sz, cs, ix) == ReadOk(sz, cs, ix) /\ Read(sz, cs, ix).state = "Revealed"

\* The connected (8-neighbour) region of Hint(0) cells that contains the set S.
RECURSIVE ZeroRegion(_, _, _)
ZeroRegion(sz, cs, S) ==
    LET more == {rc \in Coords(sz) :
                    /\ rc \notin S
                    /\ ReadsZero(sz, cs, rc)
                    /\ \E x \in S : rc \in Moore(sz, x)}
    IN  IF more = {} THEN S ELSE ZeroRegion(sz, cs, S \cup more)

\* A reveal call on a Hint(0) target has completed.
FloodDone ==
    /\ pc = "play"
    /\ reveal_index # None
    /\ ReadsZero(size, cells, reveal_index)

(***************************************************************************)
(* C1: for every grid size and in-bounds coordinate, neighbors returns     *)
(* exactly the in-bounds cells of the Moore neighbourhood: every one of    *)
(* them, none outside the grid, and not the coordinate itself.             *)
(***************************************************************************)
C1_NeighborsExact ==
    nb_index # None => Range(nb_res) = Moore(size, nb_index)

(***************************************************************************)
(* C2: a flood fill, once started by a reveal of a Hint(0) cell, runs to   *)
(* its end (the stack empties and reveal returns), on every grid; on the   *)
(* 2x2 grid without bombs it ends with all 4 cells Revealed.               *)
(***************************************************************************)
C2_FloodFillTerminates ==
    /\ (pc = "reveal") ~> (pc = "play")
    /\ [](FloodDone /\ size = <<2, 2>> /\ num_bombs = 0
            => \A rc \in Coords(size) : ReadsRevealed(size, cells, rc))

(***************************************************************************)
(* C3: when a reveal of a Hint(0) cell has completed, every cell of the    *)
(* connected region of Hint(0) cells around the target is Revealed, and so *)
(* is every Hint(n>0) cell next to a cell of that region.                  *)
(***************************************************************************)
C3_FloodCoverage ==
    FloodDone =>
        \A x \in ZeroRegion(size, cells, {reveal_index}) :
            /\ ReadsRevealed(size, cells, x)
            /\ \A y \in Moore(size, x) :
                  (ReadOk(size, cells, y) /\ IsHint(Read(size, cells, y).contents))
                      => ReadsRevealed(size, cells, y)

(***************************************************************************)
(* C4: when place_bombs_rnd has returned, exactly num_bombs of the         *)
(* in-bounds coordinates read as Bomb.                                     *)
(***************************************************************************)
C4_BombCount ==
    pc = "play" =>
        Cardinality({rc \in Coords(size) : ReadsBomb(size, cells, rc)}) = num_bombs

(***************************************************************************)
(* C5: when place_bombs_rnd has returned, every coordinate that reads      *)
(* Hint(n) has exactly n in-bounds Moore neighbours that read Bomb.        *)
(***************************************************************************)
C5_HintAccuracy ==
    pc = "play" =>
        \A rc \in Coords(size) :
            (ReadOk(size, cells, rc) /\ IsHint(Read(size, cells, rc).contents))
                => Read(size, cells, rc).contents.n
                     = Cardinality({y \in Moore(size, rc) : ReadsBomb(size, cells, y)})

(***************************************************************************)
(* C6: a Revealed cell stays Revealed in every later state, whatever is    *)
(* done (left presses, right presses, direct reveal calls with their flood *)
(* fills); the only changes of a cell's state are Hidden -> Flagged,       *)
(* Flagged -> Hidden, Hidden -> Revealed and Flagged -> Revealed.          *)
(***************************************************************************)
LegalMoves ==
    {<<"Hidden", "Flagged">>, <<"Flagged", "Hidden">>,
     <<"Hidden", "Revealed">>, <<"Flagged", "Revealed">>}

C6_RevealedTerminal ==
    [][\A i \in DOMAIN cells :
          /\ cells[i].state = "Revealed" => cells'[i].state = "Revealed"
          /\ cells'[i].state # cells[i].state
                => <<cells[i].state, cells'[i].state>> \in LegalMoves]_vars

\* A cell was revealed by a left press and a later right press flagged another.
C6_Witness ==
    /\ pc = "play"
    /\ caller = "on_event"
    /\ result = "Consumed"
    /\ reveal_index # None
    /\ ReadsRevealed(size, cells, reveal_index)
    /\ \E i \in DOMAIN cells : cells[i].state = "Flagged"

(***************************************************************************)
(* C7: through any sequence of mouse events on a generated board no Bomb   *)
(* cell is ever Revealed; a left press on a Bomb cell yields the loss      *)
(* callback and changes no cell.                                           *)
(***************************************************************************)
\* The presses of a button that land on the coordinate rc (x / 3 = c, y = r).
PressesOn(button, rc) ==
    {[kind |-> "Mouse", offset |-> ViewOffset, event |-> button,
      position |-> <<ViewOffset[1] + 3 * rc[2] + d, ViewOffset[2] + rc[1]>>] :
        d \in 0 .. 2}

C7_NoBombRevealed ==
    /\ [][/\ \A i \in DOMAIN cells :
                cells'[i].contents = Bomb => cells'[i].state # "Revealed"
           /\ ((nops' = nops + 1 /\ result' = "Callback") => cells' = cells)]_vars
    /\ [](pc = "play"
            => \A rc \in Coords(size) : \A e \in PressesOn("PressLeft", rc) :
                  ReadsBomb(size, cells, rc)
                     => /\ Handle(size, cells, e).result = "Callback"
                        /\ Handle(size, cells, e).cells = cells)

\* A bomb was pressed after another cell had been revealed.
C7_Witness ==
    /\ result = "Callback"
    /\ \E i \in DOMAIN cells : cells[i].state = "Revealed"
    /\ \E i \in DOMAIN cells : cells[i].contents = Bomb

(***************************************************************************)
(* C8: calling reveal twice in succession on the same non-bomb cell leaves *)
(* the grid (every cell's state and contents) as the first call left it.   *)
(***************************************************************************)
C8_RevealIdempotent ==
    (pc = "play" /\ rep) => cells = prev.cells

\* The second of two direct calls on one Hint(0) cell has returned from its flood fill.
C8_Witness ==
    /\ pc = "play"
    /\ rep
    /\ ReadsZero(size, cells, reveal_index)
    /\ \E i \in DOMAIN cells : cells[i].contents = Bomb

(***************************************************************************)
(* C9: a right press on an in-bounds coordinate turns the cell read there  *)
(* from Hidden to Flagged or from Flagged to Hidden, leaves it alone when  *)
(* it is Revealed, and changes nothing else: not the state read at any     *)
(* other in-bounds coordinate, nor any contents; a second press on the     *)
(* same coordinate restores the grid.                                      *)
(***************************************************************************)
Toggled(st) ==
    CASE st = "Hidden" -> "Flagged"
      [] st = "Flagged" -> "Hidden"
      [] OTHER -> st

C9_FlagToggleFrame ==
    [][(pc = "play" /\ nops' = nops + 1 /\ pc' = "play" /\ result' = "Consumed")
          => \A rc \in Coords(size) : \A e \in PressesOn("PressRight", rc) :
                on_event(e) =>
                   /\ Read(size, cells', rc).state = Toggled(Read(size, cells, rc).state)
                   /\ \A other \in Coords(size) \ {rc} :
                         ReadOk(size, cells, other)
                            => Read(size, cells', other).state
                                 = Read(size, cells, other).state
                   /\ \A i \in DOMAIN cells : cells'[i].contents = cells[i].contents
                   /\ [cells' EXCEPT ![index(size, rc)].state = Toggled(@)] = cells]_vars

(***************************************************************************)
(* C10: in every state during and after place_bombs_rnd every Hint(n) has  *)
(* 0 <= n <= 8, so the glyph lookup NUMBERS[n] stays within its 9 entries. *)
(***************************************************************************)
C10_HintRange ==
    \A i \in DOMAIN cells :
        IsHint(cells[i].contents)
            => /\ cells[i].contents.n \in 0 .. 8
               /\ cells[i].contents.n + 1 \in DOMAIN NUMBERS

\* Generation has returned with a hint that counts several bombs.
C10_Witness ==
    /\ pc = "play"
    /\ \E i \in DOMAIN cells :
          IsHint(cells[i].contents) /\ cells[i].contents.n >= 6

(***************************************************************************)
(* C11: on every grid size and for every num_bombs below rows * cols,      *)
(* place_bombs_rnd eventually returns, when the random source is fair      *)
(* (every in-bounds coordinate keeps being sampled).                       *)
(***************************************************************************)
C11_GenerationTerminates ==
    (pc = "gen") ~> (pc = "play")

(***************************************************************************)
(* C12: a configuration with rows = 0, cols = 0 or num_bombs >= rows * cols *)
(* is rejected with an error before any Grid is built or generation is     *)
(* started: the program never goes on to build the grid, to generate (and  *)
(* so never loops there for ever) or to play with it.                      *)
(***************************************************************************)
InvalidConfig(sz, k) == sz[1] = 0 \/ sz[2] = 0 \/ k >= sz[1] * sz[2]

C12_InvalidConfigRejected ==
    InvalidConfig(size, num_bombs) => pc \in {"new", "rejected"}

(***************************************************************************)
(* C13: on a grid with at least 2 rows and 2 columns neighbors returns 3   *)
(* coordinates for a corner cell, 5 for a cell on an edge that is not a    *)
(* corner, 8 for an interior cell, and no coordinate twice.                *)
(***************************************************************************)
OnRowEdge(sz, ix) == ix[1] = 0 \/ ix[1] = sz[1] - 1

OnColEdge(sz, ix) == ix[2] = 0 \/ ix[2] = sz[2] - 1

ExpectedCount(sz, ix) ==
    IF OnRowEdge(sz, ix) /\ OnColEdge(sz, ix) THEN 3
    ELSE IF OnRowEdge(sz, ix) \/ OnColEdge(sz, ix) THEN 5
    ELSE 8

C13_NeighborCounts ==
    (nb_index # None /\ size[1] >= 2 /\ size[2] >= 2)
        => /\ Len(nb_res) = ExpectedCount(size, nb_index)
           /\ Cardinality(Range(nb_res)) = Len(nb_res)

(***************************************************************************)
(* C14: once place_bombs_rnd has returned, no mouse event (left press,     *)
(* right press, any other) and no reveal call, with its flood fill,        *)
(* changes the contents of any cell, nor the number of cells.              *)
(***************************************************************************)
C14_ContentsImmutable ==
    [][pc # "gen"
          => /\ DOMAIN cells' = DOMAIN cells
             /\ \A i \in DOMAIN cells : cells'[i].contents = cells[i].contents]_vars

\* A cell was flagged and a direct reveal has then run on a board with a bomb.
C14_Witness ==
    /\ pc = "play"
    /\ nops >= 2
    /\ caller = "direct"
    /\ \E i \in DOMAIN cells : cells[i].contents = Bomb
    /\ \E i \in DOMAIN cells : cells[i].state = "Flagged"
    /\ \E i \in DOMAIN cells :
          cells[i].state = "Revealed" /\ IsHint(cells[i].contents)

(***************************************************************************)
(* C15: a call reveal((r,c)) changes the state read at no coordinate other *)
(* than the target, the coordinates of the connected Hint(0) region that   *)
(* contains the target and the Hint(n>0) coordinates next to that region;  *)
(* when the target is Hint(n) with n > 0 only the target becomes Revealed. *)
(* (Only reveal makes a cell Revealed, so the steps that turn a cell       *)
(* Revealed are the steps of the call whose target is reveal_index.)       *)
(***************************************************************************)
\* The coordinates a reveal of the target t may change.
FloodBoundary(sz, cs, t) ==
    IF ReadsZero(sz, cs, t)
    THEN LET region == ZeroRegion(sz, cs, {t})
         IN  region \cup
             {y \in Coords(sz) :
                 /\ ReadOk(sz, cs, y)
                 /\ IsHint(Read(sz, cs, y).contents)
                 /\ \E x \in region : y \in Moore(sz, x)}
    ELSE {t}

C15_FloodInsideBoundary ==
    [][\A rc \in Coords(size) :
          (/\ ReadOk(size, cells, rc)
           /\ Read(size, cells, rc).state # "Revealed"
           /\ Read(size, cells', rc).state = "Revealed")
              => rc \in FloodBoundary(size, cells, reveal_index')]_vars

(***************************************************************************)
(* C16: during a reveal call no coordinate is expanded twice: when the     *)
(* coordinate popped from the work stack reads a cell that is Revealed     *)
(* already (the target, whose neighbours were pushed when the call began,  *)
(* or a cell marked and expanded by an earlier pop), the pop pushes        *)
(* nothing, and the loop goes on with the rest of the stack.               *)
(***************************************************************************)
C16_ExpandOnce ==
    [][(/\ pc = "reveal"
        /\ stack # <<>>
        /\ ReadsRevealed(size, cells, stack[Len(stack)]))
          => /\ stack' = SubSeq(stack, 1, Len(stack) - 1)
             /\ pc' = "reveal"]_vars

(***************************************************************************)
(* C17: during place_bombs_rnd and during reveal on in-bounds targets, on  *)
(* every grid size, every coordinate that is used to index the grid lies   *)
(* in [0,rows) x [0,cols) and its flat index is below rows * cols: no      *)
(* operation aborts on an index out of range, and no coordinate outside    *)
(* the grid waits on the work stack to be indexed.                         *)
(***************************************************************************)
C17_NoOutOfRange ==
    /\ pc # "panic"
    /\ \A i \in DOMAIN stack :
          /\ stack[i] \in Coords(size)
          /\ index(size, stack[i]) < size[1] * size[2]

(***************************************************************************)
(* C18: on every grid size, square or not, the flat index of an in-bounds  *)
(* coordinate lies in [0, rows * cols), distinct in-bounds coordinates     *)
(* have distinct flat indices, and so a write through grid[(r,c)] (here    *)
(* place_bombs_rnd's cell.contents = Bomb) leaves the cell read at every   *)
(* other in-bounds coordinate as it was.                                   *)
(***************************************************************************)
C18_IndexBijection ==
    \A a \in Coords(size) :
        /\ index(size, a) \in 0 .. size[1] * size[2] - 1
        /\ \A b \in Coords(size) \ {a} :
              /\ index(size, a) # index(size, b)
              /\ (ReadOk(size, cells, a) /\ ReadOk(size, cells, b))
                    => Read(size, [cells EXCEPT ![index(size, a)].contents = Bomb], b)
                         = Read(size, cells, b)

(***************************************************************************)
(* C19: at every iteration boundary of place_bombs_rnd (the head of the    *)
(* while loop, and its exit) the number of cells of the grid whose         *)
(* contents is Bomb equals bombs_placed; a placement never turns a Bomb    *)
(* cell back into a Hint; a sample that lands on a Bomb changes no cell    *)
(* and does not count: bombs_placed grows by one, and only together with a *)
(* new Bomb cell.                                                          *)
(***************************************************************************)
\* The cells of the Vec that hold a bomb.
BombCells(cs) == {i \in DOMAIN cs : cs[i].contents = Bomb}

C19_GenLoopInvariant ==
    /\ [](pc \in {"gen", "play"}
            => /\ Cardinality(BombCells(cells)) = bombs_placed
               /\ (pc = "gen"
                     => \A ix \in Coords(size) :
                           ReadsBomb(size, cells, ix) => ~ENABLED <<PlaceBomb(ix)>>_vars))
    /\ [][/\ BombCells(cells) \subseteq BombCells(cells')
           /\ bombs_placed' \in {bombs_placed, bombs_placed + 1}
           /\ (bombs_placed' = bombs_placed + 1
                 => Cardinality(BombCells(cells')) = Cardinality(BombCells(cells)) + 1)
           /\ (bombs_placed' = bombs_placed /\ pc' = "gen") => cells' = cells]_vars

\* The loop is at its head with bombs placed and more to place, so that a
\* sample can land on a Bomb.
C19_Witness ==
    /\ pc = "gen"
    /\ bombs_placed >= 2
    /\ bombs_placed < num_bombs
    /\ \E ix \in Coords(size) : ReadsBomb(size, cells, ix)
    /\ \E ix \in Coords(size) : ~ReadsBomb(size, cells, ix)

(***************************************************************************)
(* C20: a left press on a Flagged cell is handled as on a Hidden cell: on  *)
(* a Bomb it yields the loss callback (and the flag stays), otherwise the  *)
(* cell becomes Revealed, with the flood fill started when it is Hint(0);  *)
(* the flag never blocks the reveal. A mouse event at a position outside   *)
(* the grid is ignored and leaves every cell as it is.                     *)
(***************************************************************************)
\* The event's position is left of, above, right of or below the grid's cells.
Outside(sz, e) ==
    \/ e.position[1] < e.offset[1]
    \/ e.position[2] < e.offset[2]
    \/ e.position[1] >= e.offset[1] + 3 * sz[2]
    \/ e.position[2] >= e.offset[2] + sz[1]

C20_FlagsAdvisory ==
    pc = "play" =>
        /\ \A rc \in Coords(size) : \A e \in PressesOn("PressLeft", rc) :
              (ReadOk(size, cells, rc) /\ Read(size, cells, rc).state = "Flagged")
                 => LET onFlagged == Handle(size, cells, e)
                        onHidden == Handle(size,
                                           [cells EXCEPT ![index(size, rc)].state = "Hidden"],
                                           e)
                    IN  /\ onFlagged.result = onHidden.result
                        /\ onFlagged.target = onHidden.target
                        /\ onFlagged.pc = onHidden.pc
                        /\ IF ReadsBomb(size, cells, rc)
                           THEN /\ onFlagged.result = "Callback"
                                /\ onFlagged.cells = cells
                           ELSE /\ onFlagged.target = rc
                                /\ Read(size, onFlagged.cells, rc).state = "Revealed"
                                /\ onFlagged.cells = onHidden.cells
                                /\ (onFlagged.pc = "reveal") = ReadsZero(size, cells, rc)
        /\ \A e \in Events(size) :
              (e.kind = "Mouse" /\ Outside(size, e))
                 => /\ Handle(size, cells, e).cells = cells
                    /\ Handle(size, cells, e).result = "Ignored"
                    /\ Handle(size, cells, e).target = None

\* The bomb was flagged and then pressed with the left button: the callback
\* was returned and the flag is still on.
C20_Witness ==
    /\ pc = "play"
    /\ nops >= 2
    /\ result = "Callback"
    /\ \E i \in DOMAIN cells : cells[i].contents = Bomb
    /\ \A i \in DOMAIN cells : cells[i].contents = Bomb => cells[i].state = "Flagged"

====
